---- MODULE Spec2Model ----
(***************************************************************************)
(* Position decision engines of the alpaca-trading-bot repository:         *)
(*   src/upro_trading.py      LONG engine    (symbol UPRO)                 *)
(*   src/intraday_monitor.py  INVERSE engine (symbol SPXS)                 *)
(* One invocation of main() is one cycle.  A cycle is atomic (the scripts  *)
(* are single threaded and synchronous); the replies of the broker, the    *)
(* market-data service, the config file and the wall clock are inputs      *)
(* drawn from small sets.  Python floats are modelled as exact rationals.  *)
(*                                                                         *)
(* Specifications:                                                         *)
(*   Spec         cycles of one engine, the broker and process restarts    *)
(*   SpecEntry    the entry gates of both engines on the same inputs       *)
(*   SpecOverlap  two invocations of main() interleaved at the requests    *)
(*   SpecMonitor  the moving-average exit monitor of the alternate mode    *)
(*   SpecRestart  the UPRO script run by one process after another         *)
(*                                                                         *)
(* Variables: engine (which script runs), position and pending (the        *)
(* broker's position and its accepted, unexecuted orders), highest_price   *)
(* (the module-level tracker), last (record of the latest cycle), sym      *)
(* (SpecEntry), inv (SpecOverlap), sma (SpecMonitor), hist (history).      *)
(***************************************************************************)
EXTENDS Integers, Sequences, FiniteSets, TLC

VARIABLES engine, position, pending, highest_price, last, sym, hist, inv,
          sma

vars == <<engine, position, pending, highest_price, last, sym, hist, inv,
          sma>>

(***************************************************************************)
(* Exact rationals [n, d], d > 0, in lowest terms.                         *)
(***************************************************************************)
Abs(i) == IF i < 0 THEN -i ELSE i

RECURSIVE GCD(_, _)
GCD(a, b) == IF b = 0 THEN a ELSE GCD(b, a % b)

Rat(n, d) ==
    LET s == IF d < 0 THEN -1 ELSE 1
        g == GCD(Abs(n), Abs(d))
    IN  [n |-> (s * n) \div g, d |-> (s * d) \div g]

R(i) == [n |-> i, d |-> 1]

RAdd(a, b) == Rat(a.n * b.d + b.n * a.d, a.d * b.d)
RSub(a, b) == Rat(a.n * b.d - b.n * a.d, a.d * b.d)
RMul(a, b) == Rat(a.n * b.n, a.d * b.d)
RDiv(a, b) == Rat(a.n * b.d, a.d * b.n)
RAbs(a)    == [n |-> Abs(a.n), d |-> a.d]
RLe(a, b)  == a.n * b.d <= b.n * a.d
RLt(a, b)  == a.n * b.d < b.n * a.d
RMax(a, b) == IF RLt(a, b) THEN b ELSE a

(***************************************************************************)
(* Python values: None, a key absent from the config dict, truthiness.     *)
(***************************************************************************)
PyNone == [tag |-> "none"]
Absent == [tag |-> "absent"]

\* dict.get(key, default)
Get(v, default) == IF v = Absent THEN default ELSE v

\* `if x:` for a value that is None or a number
Truthy(x) == x # PyNone /\ x.n # 0

\* a field of the cycle record that the cycle did not read or compute
Unread == [tag |-> "unread"]

(***************************************************************************)
(* Program constants.                                                      *)
(***************************************************************************)
QUANTITY == 5

Engines == {"LONG", "INVERSE"}

(***************************************************************************)
(* Bounds and input domains.                                               *)
(***************************************************************************)
\* orders accepted by the broker and not yet executed
MaxPending == 1

\* prices of the traded symbol, in dollars
Prices == {97, 100, 103}

\* previous close and today's open of the traded symbol:
\* gaps of -2%, exactly +1% and +2% against a previous close of 100
PrevCloses == {R(100)}
TodayOpens == {R(98), R(101), R(102)}

\* sp500_stop_price of the config and the SPY open:
\* 4850/10 is 3% below 500, 5150/10 is 3% above
StopLevels == {PyNone, R(0), R(4850), R(5150)}
SpyOpens   == {PyNone, R(500)}

\* trailing_stop_percent of the config
TrailingValues == {Absent, PyNone, R(0), R(-2), R(10), Rat(5, 2), R(3)}

\* upro_trading_enabled / spxs_trading_enabled of the config
PyFalse == [tag |-> "false"]
PyTrue  == [tag |-> "true"]
EnabledValues == {Absent, PyFalse, PyTrue}

\* wall clock: the season fixes the UTC offset of US Eastern time, `since`
\* is the number of minutes elapsed since the official open (09:30 ET) of
\* the day's regular session, which lasts 390 minutes
Seasons == {"EST", "EDT"}
SinceOpenPoints == {5, 15, 388, 448}
\* the season only matters for the wall-clock test near the close
TimePoints ==
    {t \in [season : Seasons, since : SinceOpenPoints] :
        t.season = "EST" \/ t.since >= 388}

SessionOpenUTC(season) == IF season = "EST" THEN 14 * 60 + 30 ELSE 13 * 60 + 30
SessionLength == 6 * 60 + 30

InSession(now) == now.since >= 0 /\ now.since < SessionLength

\* datetime.now() on a host whose local time is UTC
WallMinuteOfDay(now) == SessionOpenUTC(now.season) + now.since
Hour(now)   == WallMinuteOfDay(now) \div 60
Minute(now) == WallMinuteOfDay(now) % 60

\* replies of GET /v2/clock: no reply, or is_open with next_open; next_open
\* is given as the number of sessions it lies after the current one
\* (0: the open of the current session, 1: the open of the next one)
ClockReplies(now) ==
    {PyNone} \cup
    [is_open : {FALSE} \cup (IF InSession(now) THEN {TRUE} ELSE {}),
     next_open : {0, 1}]

\* replies to the second clock request, made by the entry gate moments after
\* main() saw the market open
GateClockReplies == {PyNone} \cup [is_open : {TRUE}, next_open : {0, 1}]

(***************************************************************************)
(* Entry gate: check_entry_conditions of the two engines.                  *)
(***************************************************************************)
\* gap_pct = ((today_open - prev_close) / prev_close) * 100
GapPct(today_open, prev_close) ==
    RMul(RDiv(RSub(today_open, prev_close), prev_close), R(100))

\* minutes between datetime.now(tz) and clock['next_open']; consecutive
\* session opens are taken to be one day (1440 minutes) apart
TimeSinceOpen(clock, now) == now.since - 1440 * clock.next_open

GapGateLong(gap_pct) == RLt(R(1), gap_pct)

GapGateInverse(gap_pct) == RLt(R(1), RAbs(gap_pct))

\* the gate fetches the clock again and blocks only on a usable reply
GateBlocks(clock, now) ==
    /\ clock # PyNone
    /\ clock.is_open
    /\ TimeSinceOpen(clock, now) < 15

PriceRuleLong(current_price, prev_close) == RLe(prev_close, current_price)

\* variant: the inverse rule with a strict comparison
PriceRuleInverse_Strict(current_price, prev_close) ==
    RLt(current_price, prev_close)

PriceRuleInverse(current_price, prev_close) == RLe(current_price, prev_close)

EntryResult(should_enter, price, ret, today_open, gate_clock) ==
    [should_enter |-> should_enter, price |-> price, ret |-> ret,
     today_open |-> today_open, gate_clock |-> gate_clock]

\* variant: the price handed back on entry is the previous close
check_entry_conditions_long_RefPrev(prev_close, bars, latest, clock, now) ==
    IF bars = PyNone
    THEN EntryResult(FALSE, PyNone, "nobars", Unread, Unread)
    ELSE IF ~Truthy(latest)
    THEN EntryResult(FALSE, PyNone, "noprice", bars, Unread)
    ELSE LET gated == GapGateLong(GapPct(bars, prev_close))
             seen  == IF gated THEN clock ELSE Unread
         IN  IF gated /\ GateBlocks(clock, now)
             THEN EntryResult(FALSE, PyNone, "gate", bars, seen)
             ELSE IF PriceRuleLong(latest, prev_close)
             THEN EntryResult(TRUE, prev_close, "enter", bars, seen)
             ELSE EntryResult(FALSE, PyNone, "rule", bars, seen)

\* bars: None (non-200 reply or no bar) or today's open;
\* latest: None (non-200 reply) or the price of the latest trade
check_entry_conditions_long(prev_close, bars, latest, clock, now) ==
    IF bars = PyNone
    THEN EntryResult(FALSE, PyNone, "nobars", Unread, Unread)
    ELSE IF ~Truthy(latest)
    THEN EntryResult(FALSE, PyNone, "noprice", bars, Unread)
    ELSE LET gated == GapGateLong(GapPct(bars, prev_close))
             seen  == IF gated THEN clock ELSE Unread
         IN  IF gated /\ GateBlocks(clock, now)
             THEN EntryResult(FALSE, PyNone, "gate", bars, seen)
             ELSE IF PriceRuleLong(latest, prev_close)
             THEN EntryResult(TRUE, latest, "enter", bars, seen)
             ELSE EntryResult(FALSE, PyNone, "rule", bars, seen)

check_entry_conditions_inverse(prev_close, bars, latest, clock, now) ==
    IF bars = PyNone
    THEN EntryResult(FALSE, PyNone, "nobars", Unread, Unread)
    ELSE IF ~Truthy(latest)
    THEN EntryResult(FALSE, PyNone, "noprice", bars, Unread)
    ELSE LET gated == GapGateInverse(GapPct(bars, prev_close))
             seen  == IF gated THEN clock ELSE Unread
         IN  IF gated /\ GateBlocks(clock, now)
             THEN EntryResult(FALSE, PyNone, "gate", bars, seen)
             ELSE IF PriceRuleInverse(latest, prev_close)
             THEN EntryResult(TRUE, latest, "enter", bars, seen)
             ELSE EntryResult(FALSE, PyNone, "rule", bars, seen)

(***************************************************************************)
(* Stop calculation.                                                       *)
(***************************************************************************)
\* variant: the validation without the upper limit
ValidateTrailing_NoUpper(raw) ==
    LET trailing_percent == Get(raw, R(3))
    IN  IF trailing_percent = PyNone \/ RLe(trailing_percent, R(0))
        THEN R(3)
        ELSE trailing_percent

\* config.get('trailing_stop_percent', 3.0) followed by the validation
ValidateTrailing(raw) ==
    LET trailing_percent == Get(raw, R(3))
    IN  IF \/ trailing_percent = PyNone
           \/ RLe(trailing_percent, R(0))
           \/ RLt(R(3), trailing_percent)
        THEN R(3)
        ELSE trailing_percent

\* ((sp500_index_stop / 10 - spy_open) / spy_open) * 100
SpyStopPct(sp500_index_stop, spy_open) ==
    RMul(RDiv(RSub(RDiv(sp500_index_stop, R(10)), spy_open), spy_open), R(100))

\* variant: the fallback adds the trailing percent to the entry price
calculate_dynamic_stop_long_SignSlip(sp500_index_stop, spy_open, upro_entry_price, trailing_percent) ==
    IF Truthy(sp500_index_stop) /\ Truthy(spy_open)
    THEN RMul(upro_entry_price,
              RAdd(R(1), RDiv(SpyStopPct(sp500_index_stop, spy_open), R(100))))
    ELSE RMul(upro_entry_price, RAdd(R(1), RDiv(trailing_percent, R(100))))

\* LONG: the stop derived from the index, else entry less the trailing percent
calculate_dynamic_stop_long(sp500_index_stop, spy_open, upro_entry_price, trailing_percent) ==
    IF Truthy(sp500_index_stop) /\ Truthy(spy_open)
    THEN RMul(upro_entry_price,
              RAdd(R(1), RDiv(SpyStopPct(sp500_index_stop, spy_open), R(100))))
    ELSE RMul(upro_entry_price, RSub(R(1), RDiv(trailing_percent, R(100))))

\* INVERSE: None without benchmark data, else entry plus the stop's magnitude
calculate_dynamic_stop_inverse(sp500_index_stop, spy_open, spxs_entry_price) ==
    IF ~Truthy(sp500_index_stop) \/ ~Truthy(spy_open)
    THEN PyNone
    ELSE RMul(spxs_entry_price,
              RAdd(R(1), RDiv(RAbs(SpyStopPct(sp500_index_stop, spy_open)), R(100))))

\* variant: the tracker takes the current price, higher or not
UpdateHighest_Overwrite(hp, current_price) == current_price

\* highest_price[SYMBOL] after the initialisation and the update
UpdateHighest(hp, current_price) ==
    LET init == IF hp = PyNone THEN current_price ELSE hp
    IN  IF RLt(init, current_price) THEN current_price ELSE init

TrailingStop(hp, trailing_percent) ==
    RMul(hp, RSub(R(1), RDiv(trailing_percent, R(100))))

\* variant: the lower of the two stops
FinalStop_Min(initial_stop, trailing_stop) ==
    IF RLt(initial_stop, trailing_stop) THEN initial_stop ELSE trailing_stop

FinalStop(initial_stop, trailing_stop) == RMax(initial_stop, trailing_stop)

StopTriggeredLong(current_price, final_stop) == RLe(current_price, final_stop)

\* variant: the inverse trigger with the direction of the long one
StopTriggeredInverse_Below(current_price, spxs_stop_price) ==
    Truthy(spxs_stop_price) /\ RLe(current_price, spxs_stop_price)

StopTriggeredInverse(current_price, spxs_stop_price) ==
    Truthy(spxs_stop_price) /\ RLe(spxs_stop_price, current_price)

\* now.hour == 20 and now.minute >= 58
NearClose(now) == Hour(now) = 20 /\ Minute(now) >= 58

\* variant: the market-closed test never fires
MarketClosed_Ignored(clock) == FALSE

MarketClosed(clock) == ~clock.is_open

\* what the clock reply said, for the cycle record
MarketSeen(clock) == IF clock.is_open THEN "open" ELSE "closed"

\* variant: a missing flag counts as enabled
TradingDisabled_DefaultOn(enabled) == Get(enabled, PyTrue) # PyTrue

\* not config.get('<symbol>_trading_enabled', False)
TradingDisabled(enabled) == Get(enabled, PyFalse) # PyTrue

\* load_trading_config returned the parsed file
Loaded == [tag |-> "loaded"]

\* variant: the cycle stops only when both credentials are missing
CredentialsMissing_Both(api_key, secret_key) == ~api_key /\ ~secret_key

\* not API_KEY or not SECRET_KEY
CredentialsMissing(api_key, secret_key) == ~api_key \/ ~secret_key

\* which of the two credentials the environment holds
Credentials(api_key, secret_key) ==
    [api_key |-> api_key, secret_key |-> secret_key]

(***************************************************************************)
(* The cycle record: what the most recent invocation of main() read,       *)
(* computed and did.  `ret` names the place where main() returned.         *)
(***************************************************************************)
Blank ==
    [ret |-> "idle", creds |-> Unread, market |-> "unread", now |-> Unread,
     config |-> Unread, enabled |-> Unread, pos |-> Unread,
     current_price |-> Unread, sp500_stop_price |-> Unread,
     spy_open |-> Unread, trailing_cfg |-> Unread,
     trailing_percent |-> Unread, prev_close |-> Unread,
     hp_before |-> Unread, hp_seen |-> Unread, initial_stop |-> Unread,
     trailing_stop |-> Unread, final_stop |-> Unread,
     today_open |-> Unread, gate_clock |-> Unread, gate_ret |-> "none",
     should_enter |-> FALSE, ref_price |-> Unread, order |-> PyNone,
     orders |-> 0]

\* place_market_order: the request, and whether the reply was a 200
Order(side, qty, ok) == [side |-> side, qty |-> qty, ok |-> ok]

\* History of the run, kept beside the program's state and read by no
\* action: the largest current price a stop computation has seen since the
\* tracker's entry was created, the side of the most recent order the broker
\* accepted, whether some cycle started while an order was unexecuted, and,
\* where process exits are noted (SpecRestart), the tracker value the
\* previous process held when it exited (lost_high, kept until the new
\* process runs a stop computation) and that value again when it was above
\* the current price of the stop computation just run (lost_above).
NoHistory == [observed_max |-> PyNone, last_side |-> "none",
              overlapped |-> FALSE, lost_high |-> PyNone,
              lost_above |-> PyNone]

Observe(rec, hp, ord) ==
    [observed_max |->
         IF hp = PyNone THEN PyNone
         ELSE IF rec.hp_seen = Unread THEN hist.observed_max
         ELSE IF highest_price = PyNone THEN rec.current_price
         ELSE RMax(hist.observed_max, rec.current_price),
     last_side  |-> IF ord # PyNone /\ ord.ok THEN ord.side
                    ELSE hist.last_side,
     overlapped |-> hist.overlapped \/ pending # <<>>,
     lost_high  |-> IF rec.hp_seen = Unread THEN hist.lost_high ELSE PyNone,
     lost_above |-> IF /\ rec.hp_seen # Unread
                       /\ hist.lost_high # PyNone
                       /\ RLt(rec.current_price, hist.lost_high)
                    THEN hist.lost_high ELSE PyNone]

\* the requests of ords the broker accepted, as orders awaiting execution
RECURSIVE Accepted(_)
Accepted(ords) ==
    IF ords = <<>> THEN <<>>
    ELSE (IF Head(ords).ok
          THEN <<[side |-> Head(ords).side, qty |-> Head(ords).qty]>>
          ELSE <<>>) \o Accepted(Tail(ords))

\* end of an invocation: the record, the tracker and the place_market_order
\* calls it made, in order (the record keeps the first and their number)
FinishAll(rec, hp, ords) ==
    LET ord == IF ords = <<>> THEN PyNone ELSE Head(ords)
    IN  /\ last' = [rec EXCEPT !.order = ord, !.orders = Len(ords)]
        /\ highest_price' = hp
        /\ pending' = pending \o Accepted(ords)
        /\ hist' = Observe(rec, hp, ord)
        /\ UNCHANGED <<engine, position, sym, inv, sma>>

\* end of an invocation that made at most one place_market_order call
Finish(rec, hp, ord) ==
    FinishAll(rec, hp, IF ord = PyNone THEN <<>> ELSE <<ord>>)

\* variant: no return after the stop-loss SELL
PositionOrders_FallThrough(stopped, near, qty, ok) ==
    (IF stopped THEN <<Order("sell", qty, ok)>> ELSE <<>>)
        \o (IF near THEN <<Order("sell", qty, ok)>> ELSE <<>>)

\* the place_market_order calls of the position branch: the stop-loss SELL
\* is followed by return, so the cutoff test runs only when the stop did
\* not trigger
PositionOrders(stopped, near, qty, ok) ==
    IF stopped THEN <<Order("sell", qty, ok)>>
    ELSE IF near THEN <<Order("sell", qty, ok)>>
    ELSE <<>>

\* variant: the position request never succeeds
PositionReplies_Blind == {PyNone}

\* get_current_position: the broker's position; the reply is a non-200 (and
\* the result None) when the account holds no position in the symbol
PositionReplies == {position}

(***************************************************************************)
(* main() of src/upro_trading.py                                           *)
(***************************************************************************)
\* variant: with trading not enabled the position branch only reports
LongExit_Gated(rec, pos, sp500_stop_price, spy_open, trailing_cfg, cur, ok) ==
    LET qty              == pos.qty
        entry_price      == pos.entry
        current_price    == R(cur)
        trailing_percent == ValidateTrailing(trailing_cfg)
        hp               == UpdateHighest(highest_price, current_price)
    IN
    \* the locals of the stop computation, each assigned once
    \E initial_stop \in {calculate_dynamic_stop_long(
                             sp500_stop_price, spy_open, entry_price,
                             trailing_percent)},
       trailing_stop \in {TrailingStop(hp, trailing_percent)} :
    \E final_stop \in {FinalStop(initial_stop, trailing_stop)} :
    \E stopped \in {StopTriggeredLong(current_price, final_stop)} :
    LET seen == [rec EXCEPT !.pos = pos, !.current_price = current_price,
                            !.sp500_stop_price = sp500_stop_price,
                            !.spy_open = spy_open,
                            !.trailing_cfg = trailing_cfg,
                            !.trailing_percent = trailing_percent,
                            !.hp_before = highest_price,
                            !.hp_seen = hp,
                            !.initial_stop = initial_stop,
                            !.trailing_stop = trailing_stop,
                            !.final_stop = final_stop]
        near    == NearClose(rec.now)
        ords    == PositionOrders(stopped, near, qty, ok)
    IN  IF TradingDisabled(rec.enabled)
        THEN FinishAll([seen EXCEPT !.ret = "hold"], hp, <<>>)
        ELSE IF stopped
        THEN FinishAll([seen EXCEPT !.ret = "stop"], PyNone, ords)
        ELSE IF near
        THEN FinishAll([seen EXCEPT !.ret = "cutoff"], PyNone, ords)
        ELSE FinishAll([seen EXCEPT !.ret = "hold"], hp, ords)

LongExit(rec, pos, sp500_stop_price, spy_open, trailing_cfg, cur, ok) ==
    LET qty              == pos.qty
        entry_price      == pos.entry
        current_price    == R(cur)
        trailing_percent == ValidateTrailing(trailing_cfg)
        hp               == UpdateHighest(highest_price, current_price)
    IN
    \* the locals of the stop computation, each assigned once
    \E initial_stop \in {calculate_dynamic_stop_long(
                             sp500_stop_price, spy_open, entry_price,
                             trailing_percent)},
       trailing_stop \in {TrailingStop(hp, trailing_percent)} :
    \E final_stop \in {FinalStop(initial_stop, trailing_stop)} :
    \E stopped \in {StopTriggeredLong(current_price, final_stop)} :
    LET seen == [rec EXCEPT !.pos = pos, !.current_price = current_price,
                            !.sp500_stop_price = sp500_stop_price,
                            !.spy_open = spy_open,
                            !.trailing_cfg = trailing_cfg,
                            !.trailing_percent = trailing_percent,
                            !.hp_before = highest_price,
                            !.hp_seen = hp,
                            !.initial_stop = initial_stop,
                            !.trailing_stop = trailing_stop,
                            !.final_stop = final_stop]
        near    == NearClose(rec.now)
        ords    == PositionOrders(stopped, near, qty, ok)
    IN  IF stopped
        THEN FinishAll([seen EXCEPT !.ret = "stop"], PyNone, ords)
        ELSE IF near
        THEN FinishAll([seen EXCEPT !.ret = "cutoff"], PyNone, ords)
        ELSE FinishAll([seen EXCEPT !.ret = "hold"], hp, ords)

LongEntry(rec, prev_close, bars, latest, clock, ok) ==
    LET res  == check_entry_conditions_long(prev_close, bars, latest, clock,
                                            rec.now)
        seen == [rec EXCEPT !.pos = PyNone,
                            !.current_price = IF bars = PyNone THEN Unread
                                              ELSE latest,
                            !.today_open = bars,
                            !.gate_clock = res.gate_clock,
                            !.gate_ret = res.ret,
                            !.should_enter = res.should_enter,
                            !.ref_price = res.price]
    IN  IF res.should_enter
        THEN Finish([seen EXCEPT !.ret = "enter"], highest_price,
                    Order("buy", QUANTITY, ok))
        ELSE Finish([seen EXCEPT !.ret = "wait"], highest_price, PyNone)

MainLong ==
    /\ engine = "LONG"
    /\ last = Blank
    /\ Len(pending) < MaxPending
    /\ \E api_key \in BOOLEAN, secret_key \in BOOLEAN :
        LET env == [Blank EXCEPT !.creds = Credentials(api_key, secret_key)]
        IN
        IF CredentialsMissing(api_key, secret_key)
        THEN Finish([env EXCEPT !.ret = "nocreds"], highest_price, PyNone)
        ELSE \E now \in TimePoints : \E clock \in ClockReplies(now) :
          IF clock = PyNone
          THEN Finish([env EXCEPT !.ret = "noclock", !.market = "noclock"],
                      highest_price, PyNone)
          ELSE IF MarketClosed(clock)
          THEN Finish([env EXCEPT !.ret = "closed", !.now = now,
                                    !.market = MarketSeen(clock),
                                    !.hp_before = highest_price],
                      highest_price, PyNone)
          ELSE \E config \in BOOLEAN :
            IF ~config
            THEN Finish([env EXCEPT !.ret = "noconfig", !.now = now,
                                    !.config = PyNone,
                                      !.market = MarketSeen(clock)],
                        highest_price, PyNone)
            ELSE \E enabled \in EnabledValues,
                    prev_close \in {PyNone} \cup PrevCloses :
              LET rec == [env EXCEPT !.now = now, !.config = Loaded,
                                     !.enabled = enabled,
                                       !.market = MarketSeen(clock),
                                       !.prev_close = prev_close]
              IN
              IF ~Truthy(prev_close)
              THEN Finish([rec EXCEPT !.ret = "noprev"], highest_price, PyNone)
              ELSE \E pos \in PositionReplies :
                IF pos # PyNone
                THEN \E sp500_stop_price \in StopLevels, spy_open \in SpyOpens,
                        trailing_cfg \in TrailingValues, cur \in Prices,
                        ok \in BOOLEAN :
                       LongExit(rec, pos, sp500_stop_price, spy_open,
                                trailing_cfg, cur, ok)
                ELSE IF TradingDisabled(enabled)
                THEN Finish([rec EXCEPT !.ret = "disabled", !.pos = PyNone],
                            highest_price, PyNone)
                ELSE \E bars \in {PyNone} \cup TodayOpens,
                        latest \in {PyNone} \cup {R(p) : p \in Prices},
                        gclock \in GateClockReplies, ok \in BOOLEAN :
                       LongEntry(rec, prev_close, bars, latest, gclock, ok)

(***************************************************************************)
(* main() of src/intraday_monitor.py                                       *)
(***************************************************************************)
InverseExit(rec, pos, sp500_stop_price, spy_open, cur, ok) ==
    LET qty             == pos.qty
        entry_price     == pos.entry
        current_price   == R(cur)
        dynamic         == Truthy(sp500_stop_price) /\ Truthy(spy_open)
        spxs_stop_price == IF dynamic
                           THEN calculate_dynamic_stop_inverse(
                                    sp500_stop_price, spy_open, entry_price)
                           ELSE PyNone
        seen == [rec EXCEPT !.pos = pos, !.current_price = current_price,
                            !.sp500_stop_price = sp500_stop_price,
                            !.spy_open = spy_open,
                            !.final_stop = spxs_stop_price]
        stopped == dynamic /\ StopTriggeredInverse(current_price,
                                                   spxs_stop_price)
        near    == NearClose(rec.now)
        ords    == PositionOrders(stopped, near, qty, ok)
    IN  IF stopped
        THEN FinishAll([seen EXCEPT !.ret = "stop"], highest_price, ords)
        ELSE IF near
        THEN FinishAll([seen EXCEPT !.ret = "cutoff"], highest_price, ords)
        ELSE FinishAll([seen EXCEPT !.ret = "hold"], highest_price, ords)

InverseEntry(rec, prev_close, bars, latest, clock, ok) ==
    LET res  == check_entry_conditions_inverse(prev_close, bars, latest,
                                               clock, rec.now)
        seen == [rec EXCEPT !.pos = PyNone,
                            !.current_price = IF bars = PyNone THEN Unread
                                              ELSE latest,
                            !.today_open = bars,
                            !.gate_clock = res.gate_clock,
                            !.gate_ret = res.ret,
                            !.should_enter = res.should_enter,
                            !.ref_price = res.price]
    IN  IF res.should_enter
        THEN Finish([seen EXCEPT !.ret = "enter"], highest_price,
                    Order("buy", QUANTITY, ok))
        ELSE Finish([seen EXCEPT !.ret = "wait"], highest_price, PyNone)

MainInverse ==
    /\ engine = "INVERSE"
    /\ last = Blank
    /\ Len(pending) < MaxPending
    /\ \E api_key \in BOOLEAN, secret_key \in BOOLEAN :
        LET env == [Blank EXCEPT !.creds = Credentials(api_key, secret_key)]
        IN
        IF CredentialsMissing(api_key, secret_key)
        THEN Finish([env EXCEPT !.ret = "nocreds"], highest_price, PyNone)
        ELSE \E now \in TimePoints : \E clock \in ClockReplies(now) :
          IF clock = PyNone
          THEN Finish([env EXCEPT !.ret = "noclock", !.market = "noclock"],
                      highest_price, PyNone)
          ELSE IF MarketClosed(clock)
          THEN Finish([env EXCEPT !.ret = "closed", !.now = now,
                                    !.market = MarketSeen(clock),
                                    !.hp_before = highest_price],
                      highest_price, PyNone)
          ELSE \E config \in BOOLEAN :
            IF ~config
            THEN Finish([env EXCEPT !.ret = "noconfig", !.now = now,
                                    !.config = PyNone,
                                      !.market = MarketSeen(clock)],
                        highest_price, PyNone)
            ELSE \E enabled \in EnabledValues,
                    prev_close \in {PyNone} \cup PrevCloses :
              LET rec == [env EXCEPT !.now = now, !.config = Loaded,
                                     !.enabled = enabled,
                                       !.market = MarketSeen(clock),
                                       !.prev_close = prev_close]
              IN
              IF ~Truthy(prev_close)
              THEN Finish([rec EXCEPT !.ret = "noprev"], highest_price, PyNone)
              ELSE \E pos \in PositionReplies :
                IF pos # PyNone
                THEN \E sp500_stop_price \in StopLevels, spy_open \in SpyOpens,
                        cur \in Prices, ok \in BOOLEAN :
                       InverseExit(rec, pos, sp500_stop_price, spy_open,
                                   cur, ok)
                ELSE IF TradingDisabled(enabled)
                THEN Finish([rec EXCEPT !.ret = "disabled", !.pos = PyNone],
                            highest_price, PyNone)
                ELSE \E bars \in {PyNone} \cup TodayOpens,
                        latest \in {PyNone} \cup {R(p) : p \in Prices},
                        gclock \in GateClockReplies, ok \in BOOLEAN :
                       InverseEntry(rec, prev_close, bars, latest, gclock, ok)

(***************************************************************************)
(* Invocations of main() as separate processes (one per scheduler tick).   *)
(* Each request to the broker is a point where another invocation can run. *)
(***************************************************************************)
Invocations == {1, 2}

\* at most this many orders planned or unexecuted at once
MaxInFlight == 2

\* an invocation that is not running
Idle == [pc |-> "idle", now |-> Unread, enabled |-> Unread,
         prev_close |-> Unread, pos |-> Unread]

(***************************************************************************)
(* Environment: the broker, the caller of main(), the process.             *)
(***************************************************************************)
\* the broker executes the oldest accepted order at some market price; a
\* sell of at least the held quantity closes the position, a sell without a
\* position is rejected
BrokerFill ==
    /\ last = Blank
    /\ pending # <<>>
    /\ LET o == Head(pending)
       IN  /\ pending' = Tail(pending)
           /\ IF o.side = "buy"
              THEN \E p \in Prices :
                     position' =
                       [qty |-> (IF position = PyNone THEN 0 ELSE position.qty)
                                + o.qty,
                        entry |-> R(p)]
              ELSE position' =
                     IF position # PyNone /\ position.qty > o.qty
                     THEN [position EXCEPT !.qty = @ - o.qty]
                     ELSE PyNone
    /\ UNCHANGED <<engine, highest_price, last, sym, hist, inv, sma>>

\* main() has returned; its locals are gone
EndCycle ==
    /\ last # Blank
    /\ last' = Blank
    /\ hist' = [hist EXCEPT !.lost_above = PyNone]
    /\ UNCHANGED <<engine, position, pending, highest_price, sym, inv, sma>>

\* the interpreter exits and a new process imports the module again:
\* the module-level dict highest_price starts empty
Restart ==
    /\ last = Blank
    /\ highest_price # PyNone
    /\ highest_price' = PyNone
    /\ hist' = [hist EXCEPT !.observed_max = PyNone]
    /\ UNCHANGED <<engine, position, pending, last, sym, inv, sma>>

\* variant: the tracker is kept across the restart
RestartNoting_Persistent ==
    /\ last = Blank
    /\ highest_price # PyNone
    /\ hist.lost_high = PyNone
    /\ hist' = [hist EXCEPT !.lost_high = highest_price]
    /\ UNCHANGED <<engine, position, pending, highest_price, last, sym, inv,
                   sma>>

\* Restart, with the value the exiting process held noted in the history
RestartNoting ==
    /\ last = Blank
    /\ highest_price # PyNone
    /\ highest_price' = PyNone
    /\ hist' = [hist EXCEPT !.observed_max = PyNone,
                            !.lost_high = highest_price]
    /\ UNCHANGED <<engine, position, pending, last, sym, inv, sma>>

Init ==
    /\ engine \in Engines
    /\ position = PyNone
    /\ pending = <<>>
    /\ highest_price = PyNone
    /\ last = Blank
    /\ sym = Unread
    /\ hist = NoHistory
    /\ inv = [i \in Invocations |-> Idle]
    /\ sma = Unread

Next ==
    \/ MainLong
    \/ MainInverse
    \/ BrokerFill
    \/ EndCycle
    \/ Restart

Spec == Init /\ [][Next]_vars

\* the UPRO script run by one process after another
NextRestart ==
    \/ MainLong
    \/ BrokerFill
    \/ EndCycle
    \/ RestartNoting

SpecRestart == Init /\ [][NextRestart]_vars

(***************************************************************************)
(* The entry gates of the two engines applied to the same inputs.          *)
(***************************************************************************)
EvalEntry ==
    /\ \E prev_close \in PrevCloses, bars \in {PyNone} \cup TodayOpens,
          latest \in {PyNone} \cup {R(p) : p \in Prices},
          now \in {t \in TimePoints : InSession(t)},
          clock \in GateClockReplies :
         sym' = [prev_close |-> prev_close, bars |-> bars, latest |-> latest,
                 now |-> now, clock |-> clock,
                 long |-> check_entry_conditions_long(
                              prev_close, bars, latest, clock, now),
                 inverse |-> check_entry_conditions_inverse(
                              prev_close, bars, latest, clock, now)]
    /\ UNCHANGED <<engine, position, pending, highest_price, last, hist, inv,
                   sma>>

SpecEntry == Init /\ [][EvalEntry]_vars

(***************************************************************************)
(* Two invocations of main() for the same symbol, interleaved.  A process  *)
(* starts with an empty highest_price dict; of what it read before the     *)
(* position request, inv[i] keeps the locals that are still read later.    *)
(***************************************************************************)
\* the exit decision of upro_trading.py in a fresh process
ExitOrderLong(pos, now, sp500_stop_price, spy_open, trailing_cfg, cur) ==
    LET current_price    == R(cur)
        trailing_percent == ValidateTrailing(trailing_cfg)
        hp               == UpdateHighest(PyNone, current_price)
        initial_stop     == calculate_dynamic_stop_long(
                                sp500_stop_price, spy_open, pos.entry,
                                trailing_percent)
        final_stop       == FinalStop(initial_stop,
                                      TrailingStop(hp, trailing_percent))
    IN  IF StopTriggeredLong(current_price, final_stop) \/ NearClose(now)
        THEN "sell" ELSE "none"

\* the exit decision of intraday_monitor.py
ExitOrderInverse(pos, now, sp500_stop_price, spy_open, cur) ==
    LET current_price   == R(cur)
        dynamic         == Truthy(sp500_stop_price) /\ Truthy(spy_open)
        spxs_stop_price == IF dynamic
                           THEN calculate_dynamic_stop_inverse(
                                    sp500_stop_price, spy_open, pos.entry)
                           ELSE PyNone
    IN  IF (dynamic /\ StopTriggeredInverse(current_price, spxs_stop_price))
           \/ NearClose(now)
        THEN "sell" ELSE "none"

\* the config and benchmark values the interleaved invocations can read
OverlapStopLevels == {PyNone, R(5150)}
OverlapTrailing   == {Absent}

\* the orders an invocation can come to place, over what it may still read
PlannedSides(me) ==
    IF me.pos # PyNone
    THEN IF engine = "LONG"
         THEN {ExitOrderLong(me.pos, me.now, sp, so, tc, cur) :
                 sp \in OverlapStopLevels, so \in SpyOpens,
                 tc \in OverlapTrailing, cur \in Prices}
         ELSE {ExitOrderInverse(me.pos, me.now, sp, so, cur) :
                 sp \in OverlapStopLevels, so \in SpyOpens, cur \in Prices}
    ELSE IF TradingDisabled(me.enabled) THEN {"none"}
    ELSE {IF (IF engine = "LONG"
              THEN check_entry_conditions_long(me.prev_close, bars, latest,
                                               clock, me.now)
              ELSE check_entry_conditions_inverse(me.prev_close, bars, latest,
                                                  clock, me.now)).should_enter
          THEN "buy" ELSE "none" :
            bars \in {PyNone} \cup TodayOpens,
            latest \in {PyNone} \cup {R(p) : p \in Prices},
            clock \in GateClockReplies}

\* main() up to and including get_current_position
StartInvocation(i) ==
    /\ inv[i].pc = "idle"
    /\ last = Blank
    /\ Len(pending) + Cardinality({j \in Invocations : inv[j].pc = "read"})
           < MaxInFlight
    /\ \E api_key \in BOOLEAN, secret_key \in BOOLEAN :
         IF CredentialsMissing(api_key, secret_key)
         THEN inv' = inv
         ELSE \E now \in TimePoints : \E clock \in ClockReplies(now) :
           IF clock = PyNone \/ MarketClosed(clock)
           THEN inv' = inv
           ELSE \E config \in BOOLEAN :
             IF ~config
             THEN inv' = inv
             ELSE \E enabled \in EnabledValues,
                     prev_close \in {PyNone} \cup PrevCloses :
               inv' = [inv EXCEPT ![i] =
                         IF ~Truthy(prev_close) THEN Idle
                         ELSE IF position # PyNone
                         THEN [Idle EXCEPT !.pc = "read", !.now = now,
                                           !.pos = position]
                         ELSE [Idle EXCEPT !.pc = "read", !.now = now,
                                           !.enabled = enabled,
                                           !.prev_close = prev_close,
                                           !.pos = position]]
    /\ UNCHANGED <<engine, position, pending, highest_price, last, sym, hist,
                   sma>>

\* variant: an invocation waits while another one is between its position
\* request and its order
SingleFlight_Lock(i, running) ==
    \A j \in Invocations \ {i} : running[j].pc # "read"

\* what main() checks about other invocations before it places its order
SingleFlight(i, running) == TRUE

\* main() from the position branch to its return, where the process exits
PlaceOrder(i) ==
    /\ inv[i].pc = "read"
    /\ SingleFlight(i, inv)
    /\ \E side \in PlannedSides(inv[i]), ok \in BOOLEAN :
         LET me  == inv[i]
             ord == IF side = "none" THEN PyNone
                    ELSE Order(side,
                               IF side = "buy" THEN QUANTITY ELSE me.pos.qty,
                               ok)
         IN  /\ inv' = [inv EXCEPT ![i] = Idle]
             /\ pending' = IF ord # PyNone /\ ord.ok
                           THEN Append(pending,
                                       [side |-> ord.side, qty |-> ord.qty])
                           ELSE pending
    /\ UNCHANGED <<engine, position, highest_price, last, sym, hist, sma>>

NextOverlap ==
    \/ \E i \in Invocations : StartInvocation(i)
    \/ \E i \in Invocations : PlaceOrder(i)
    \/ BrokerFill

SpecOverlap == Init /\ [][NextOverlap]_vars

(***************************************************************************)
(* The moving-average exit monitor (the alternate monitoring mode):        *)
(* evaluate(daily_closes, current_price).  Prices are in cents.            *)
(***************************************************************************)
\* the number of daily closes the average is taken over
SmaPeriod == 20

\* the longest list of daily closes drawn
MaxCloses == 22

\* daily closes: a flat run at 50.00 whose oldest and newest close may differ
CloseLists ==
    {[i \in 1..n |-> IF i = n THEN newest ELSE IF i = 1 THEN oldest ELSE 5000] :
       n \in 0..MaxCloses, oldest \in {4000, 5000},
       newest \in {4980, 5000, 5020}}

CurrentPrices == {4998, 4999, 5000, 5001}

RECURSIVE SumSeq(_)
SumSeq(s) == IF s = <<>> THEN 0 ELSE Head(s) + SumSeq(Tail(s))

\* variant: the window is the oldest closes of the list
LastCloses_Oldest(daily_closes, n) == SubSeq(daily_closes, 1, n)

\* the n most recent closes (the list is oldest first)
LastCloses(daily_closes, n) ==
    SubSeq(daily_closes, Len(daily_closes) - n + 1, Len(daily_closes))

\* sma20 = average(last 20 closes)
Sma(daily_closes) ==
    Rat(SumSeq(LastCloses(daily_closes, SmaPeriod)), SmaPeriod)

\* evaluate(daily_closes, current_price): exit, hold or indeterminate
Evaluate(daily_closes, current_price) ==
    IF Len(daily_closes) < SmaPeriod
    THEN [signal |-> "indeterminate", sma20 |-> PyNone]
    ELSE LET sma20 == Sma(daily_closes)
         IN  [signal |-> IF RLt(R(current_price), sma20) THEN "exit"
                         ELSE "hold",
              sma20 |-> sma20]

\* one run of the monitor: a positive decision closes the position
MonitorCycle ==
    /\ \E daily_closes \in CloseLists, current_price \in CurrentPrices :
         LET res == Evaluate(daily_closes, current_price)
         IN  sma' = [daily_closes |-> daily_closes,
                     current_price |-> current_price,
                     signal |-> res.signal, sma20 |-> res.sma20,
                     order |-> IF res.signal = "exit"
                               THEN [side |-> "sell"] ELSE PyNone]
    /\ UNCHANGED <<engine, position, pending, highest_price, last, sym, hist,
                   inv>>

SpecMonitor == Init /\ [][MonitorCycle]_vars

(***************************************************************************)
(* Properties.                                                             *)
(***************************************************************************)
\* the cycle observed an open position / observed that there is none
SawPosition == last.pos # Unread /\ last.pos # PyNone
SawFlat     == last.pos = PyNone

PlacedBuy  == last.order # PyNone /\ last.order.side = "buy"
PlacedSell == last.order # PyNone /\ last.order.side = "sell"

\* the cycle ran the entry gate with the daily bar and the latest trade at hand
GateReached == last.gate_ret \in {"gate", "enter", "rule"}

\* |gap_pct| > 1.0, from the prices the cycle read
GapExceedsOnePercent ==
    RLt(last.prev_close,
        RMul(R(100), RAbs(RSub(last.today_open, last.prev_close))))

\* the price rule of the running engine, from the prices the cycle read
PriceRuleHolds ==
    IF engine = "LONG"
    THEN RLe(last.prev_close, last.current_price)
    ELSE RLe(last.current_price, last.prev_close)

\* C1: in a cycle whose market clock reports is_open = false no order is
\* placed and the high-water mark is left as it was, for both engines,
\* with or without an open position.
C1_MarketClosedGuard ==
    last.market = "closed" =>
        /\ last.order = PyNone
        /\ highest_price = last.hp_before

C1_Witness ==
    /\ last.market = "closed"
    /\ position # PyNone
    /\ highest_price # PyNone

\* C2: whenever |gap_pct| > 1.0 (either sign) and fewer than 15 minutes have
\* elapsed since the session's open, check_entry_conditions returns
\* should_enter = false and the cycle places no BUY, for both engines.
C2_GapGate ==
    (GateReached /\ GapExceedsOnePercent /\ last.now.since < 15) =>
        /\ ~last.should_enter
        /\ ~PlacedBuy

\* C3: for a flat symbol with trading enabled and |gap_pct| > 1.0, a cycle
\* run with the market open and 15 or more minutes after the session's
\* official open places a BUY if and only if the price rule holds.
C3_GateRelease ==
    (GateReached /\ GapExceedsOnePercent /\ last.now.since >= 15) =>
        (PlacedBuy <=> PriceRuleHolds)

\* C4: with the bar and the latest trade available and the gap gate not
\* blocking, LONG enters exactly when current_price >= previous_close and
\* INVERSE exactly when current_price <= previous_close; on the same prices
\* exactly one of them enters unless the prices are equal, when both do.
C4_DirectionSymmetry ==
    (sym # Unread /\ sym.bars # PyNone /\ sym.latest # PyNone) =>
        LET cur      == sym.latest
            prev     == sym.prev_close
            longFree == sym.long.ret # "gate"
            invFree  == sym.inverse.ret # "gate"
        IN  /\ longFree => (sym.long.should_enter <=> RLe(prev, cur))
            /\ invFree => (sym.inverse.should_enter <=> RLe(cur, prev))
            /\ (longFree /\ invFree /\ cur # prev) =>
                   (sym.long.should_enter # sym.inverse.should_enter)
            /\ (longFree /\ invFree /\ cur = prev) =>
                   (sym.long.should_enter /\ sym.inverse.should_enter)

C4_Witness ==
    /\ sym # Unread
    /\ sym.long.ret = "rule"
    /\ sym.inverse.ret = "enter"
    /\ RLt(R(1), GapPct(sym.bars, sym.prev_close))

\* C5: a cycle that observed no position places no order unless trading is
\* enabled and the gate said enter; the order is then a BUY of the configured
\* quantity (5); it never places a SELL.
C5_FlatState ==
    SawFlat =>
        /\ last.enabled # PyTrue => last.order = PyNone
        /\ last.order # PyNone =>
               /\ last.order.side = "buy"
               /\ last.order.qty = 5
               /\ last.enabled = PyTrue
               /\ last.should_enter

C5_Witness ==
    /\ SawFlat
    /\ PlacedBuy
    /\ last.order.ok

\* both benchmark inputs of the stop are non-null and non-zero
BenchmarkAvailable ==
    Truthy(last.sp500_stop_price) /\ Truthy(last.spy_open)

\* the wall clock lies in the last two minutes of the regular session
InFinalTwoMinutes ==
    last.now.since >= SessionLength - 2 /\ last.now.since < SessionLength

\* benchmark_stop_pct = (benchmark_stop_level/10 - benchmark_open)
\*                      / benchmark_open * 100
BenchmarkStopPct ==
    RMul(RDiv(RSub(RDiv(last.sp500_stop_price, R(10)), last.spy_open),
              last.spy_open),
         R(100))

\* highest_price_seen * (1 - trailing_percent/100)
PureTrailingStop ==
    RMul(last.hp_seen, RSub(R(1), RDiv(last.trailing_percent, R(100))))

C6_EffectiveStop ==
    RMax(RMul(last.pos.entry, RAdd(R(1), RDiv(BenchmarkStopPct, R(100)))),
         PureTrailingStop)

\* C6: a UPRO cycle that observes a position with both benchmark inputs
\* usable takes max(entry * (1 + benchmark_stop_pct/100),
\* highest * (1 - trailing_percent/100)) as its stop, sells the whole
\* position when current_price <= stop, and places no order when
\* current_price > stop outside the last two minutes of the session.
C6_LongExitDecision ==
    (engine = "LONG" /\ SawPosition /\ BenchmarkAvailable) =>
        /\ last.final_stop = C6_EffectiveStop
        /\ RLe(last.current_price, C6_EffectiveStop) =>
               (PlacedSell /\ last.order.qty = last.pos.qty)
        /\ (RLt(C6_EffectiveStop, last.current_price) /\ ~InFinalTwoMinutes) =>
               last.order = PyNone

C6_Witness ==
    /\ engine = "LONG"
    /\ SawPosition
    /\ BenchmarkAvailable
    /\ last.ret = "stop"
    /\ RLt(last.initial_stop, last.trailing_stop)

C7_DynamicStop ==
    RMul(last.pos.entry, RAdd(R(1), RDiv(RAbs(BenchmarkStopPct), R(100))))

\* C7: an SPXS cycle that observes a position with both benchmark inputs
\* usable takes entry * (1 + |benchmark_stop_pct|/100) as its stop, sells
\* the whole position on the stop when current_price >= stop and makes no
\* stop-triggered sale when current_price < stop.
C7_InverseExitDecision ==
    (engine = "INVERSE" /\ SawPosition /\ BenchmarkAvailable) =>
        /\ last.final_stop = C7_DynamicStop
        /\ RLe(C7_DynamicStop, last.current_price) =>
               (PlacedSell /\ last.order.qty = last.pos.qty /\ last.ret = "stop")
        /\ RLt(last.current_price, C7_DynamicStop) => last.ret # "stop"

C7_Witness ==
    /\ engine = "INVERSE"
    /\ SawPosition
    /\ last.ret = "stop"
    /\ last.sp500_stop_price = R(4850)

\* C8 as stated: a UPRO cycle that observes a position without usable
\* benchmark data uses exactly highest * (1 - trailing_percent/100) as its
\* stop, whatever the entry price.
C8_PureTrailingFallback ==
    (engine = "LONG" /\ SawPosition /\ ~BenchmarkAvailable) =>
        last.final_stop = PureTrailingStop

\* C8 as amended: without usable benchmark data the stop of a UPRO cycle is
\* max(entry_price, highest) * (1 - trailing_percent/100), which is the pure
\* trailing stop whenever entry_price <= highest; the cycle sells on the
\* stop exactly when current_price is at or below it.
C8_FallbackStop ==
    (engine = "LONG" /\ SawPosition /\ ~BenchmarkAvailable) =>
        /\ last.final_stop =
               RMul(RMax(last.pos.entry, last.hp_seen),
                    RSub(R(1), RDiv(last.trailing_percent, R(100))))
        /\ RLe(last.pos.entry, last.hp_seen) =>
               last.final_stop = PureTrailingStop
        /\ last.ret = "stop" <=> RLe(last.current_price, last.final_stop)

C8_Witness ==
    /\ engine = "LONG"
    /\ SawPosition
    /\ ~BenchmarkAvailable
    /\ RLt(last.hp_seen, last.pos.entry)
    /\ last.ret = "stop"
    /\ RLt(PureTrailingStop, last.current_price)

\* C9: an SPXS cycle that observes a position without usable benchmark data
\* still evaluates a trailing stop from a tracked highest price and the
\* trailing percent, so the position has a stop.
C9_InverseTrailingFallback ==
    (engine = "INVERSE" /\ SawPosition /\ ~BenchmarkAvailable) =>
        /\ last.hp_seen # Unread
        /\ last.trailing_percent # Unread
        /\ last.final_stop # PyNone

\* C10: whatever trailing_stop_percent the config holds, the percent the
\* stop computation uses lies in (0, 3]: the configured value when that lies
\* in (0, 3], else 3.0.
C10_ConfigClamp ==
    last.trailing_cfg # Unread =>
        LET cfg   == last.trailing_cfg
            used  == last.trailing_percent
            valid == /\ cfg # Absent
                     /\ cfg # PyNone
                     /\ RLt(R(0), cfg)
                     /\ RLe(cfg, R(3))
        IN  /\ RLt(R(0), used) /\ RLe(used, R(3))
            /\ valid => used = cfg
            /\ ~valid => used = R(3)
            /\ last.trailing_stop =
                   RMul(last.hp_seen,
                        RSub(R(1), RDiv(IF valid THEN cfg ELSE R(3), R(100))))

C10_Witness ==
    /\ last.trailing_cfg = R(10)
    /\ last.trailing_percent = R(3)
    /\ last.ret = "stop"

\* C11: in every cycle of either engine in which the market is open, the
\* broker reports an open position and the time lies in the last two
\* minutes of the regular session, a SELL for the whole position is placed,
\* whatever the stop price and whether or not benchmark data is available.
C11_EndOfDayFlatten ==
    (SawPosition /\ last.market = "open" /\ InFinalTwoMinutes) =>
        /\ PlacedSell
        /\ last.order.qty = last.pos.qty

\* one step of the tracker, from the state before a cycle to the state after
C12_Step ==
    /\ (highest_price # PyNone /\ highest_price' # PyNone) =>
           RLe(highest_price, highest_price')
    /\ (engine = "LONG" /\ last' # last /\ last'.hp_seen # Unread) =>
           /\ last'.hp_seen =
                  IF highest_price = PyNone THEN last'.current_price
                  ELSE RMax(highest_price, last'.current_price)
           /\ RLe(last'.current_price, last'.hp_seen)
           /\ last'.trailing_stop =
                  RMul(last'.hp_seen,
                       RSub(R(1), RDiv(last'.trailing_percent, R(100))))
           /\ highest_price' # PyNone => highest_price' = last'.hp_seen
    /\ highest_price' # PyNone => highest_price' = hist'.observed_max

\* C12: every UPRO cycle that reaches the stop computation first sets
\* highest_price[SYMBOL] to max(previous value, current_price), or to
\* current_price when there was no entry; so within one process, while the
\* entry exists, it never decreases, is at least the current price of the
\* stop test, and equals the largest current price observed since the entry
\* was created.
C12_HighWaterMark == [][C12_Step]_vars

C12_Witness ==
    /\ last.ret = "hold"
    /\ last.hp_before # Unread
    /\ last.hp_before # PyNone
    /\ RLt(last.hp_before, highest_price)
    /\ hist.observed_max = highest_price

\* the step is a UPRO cycle that reached the stop computation
LongStopCycle ==
    engine = "LONG" /\ last' # last /\ last'.hp_seen # Unread

\* the cycle sold on the stop or at the cutoff and the broker took the order
ClosedByCycle ==
    /\ last'.ret \in {"stop", "cutoff"}
    /\ last'.order # PyNone
    /\ last'.order.side = "sell"
    /\ last'.order.ok

C13_Step ==
    /\ (highest_price = PyNone /\ highest_price' # PyNone) =>
           (last'.pos # Unread /\ last'.pos # PyNone)
    /\ LongStopCycle => (highest_price' = PyNone <=> ClosedByCycle)
    /\ (position = PyNone /\ position' # PyNone) => highest_price = PyNone

\* C13: the highest_price entry of a symbol is created only in a cycle that
\* observes an open position and is deleted exactly when the position is
\* closed by a stop trigger or by the end-of-day cutoff; after a cycle that
\* closed the position there is no entry, and no entry is left for the stop
\* computation of a later position.
C13_StopStateLifecycle == [][C13_Step]_vars

\* the step is a cycle whose order got a non-success response
OrderRefused ==
    last' # last /\ last'.order # PyNone /\ ~last'.order.ok

C14_Step ==
    OrderRefused =>
        /\ pending' = pending
        /\ position' = position
        /\ highest_price' = IF LongStopCycle THEN last'.hp_seen
                            ELSE highest_price
        /\ (LongStopCycle /\ last'.order.side = "sell") =>
               highest_price' # PyNone

\* C14: when place_market_order gets a non-success response, for a BUY or
\* for a stop-triggered or cutoff SELL, nothing is submitted again in the
\* cycle and the local state is what it was before the order call; the
\* highest_price entry is retained when a SELL fails.
C14_BrokerErrorKeepsState == [][C14_Step]_vars

\* the step is a cycle in a run whose cycles so far all started with every
\* earlier order executed
SequentialCycle == last' # last /\ last' # Blank /\ ~hist'.overlapped

\* the step is the broker executing a SELL in such a run
SequentialSellFill ==
    /\ ~hist.overlapped
    /\ pending # <<>>
    /\ pending' = Tail(pending)
    /\ Head(pending).side = "sell"

C15_Step ==
    /\ SequentialSellFill => position' = PyNone
    /\ (SequentialCycle /\ last'.order # PyNone) =>
           /\ last'.order.side # hist.last_side
           /\ hist.last_side = "none" => last'.order.side = "buy"
           /\ last'.order.side = "buy" => position = PyNone
           /\ last'.order.side = "sell" => position # PyNone

OrderTaken(i) ==
    inv[i].pc = "read" /\ inv'[i].pc = "idle" /\ pending' # pending

C16_Step ==
    \A i \in Invocations :
        /\ inv'[i].pc = "read" => SingleFlight(i, inv')
        /\ OrderTaken(i) =>
               pending' = Append(pending,
                                 IF inv[i].pos = PyNone
                                 THEN [side |-> "buy", qty |-> QUANTITY]
                                 ELSE [side |-> "sell",
                                       qty |-> inv[i].pos.qty])

\* C16: nothing makes an invocation wait for, or learn of, another one: an
\* invocation that has read the position goes on to its order whatever the
\* other has read or placed, a BUY for QUANTITY if it read no position and
\* a SELL for the quantity it read otherwise.  So both can BUY on a flat
\* account and both can SELL the same position.
C16_NoSingleFlight == [][C16_Step]_vars

\* both invocations have sold the same position; it holds twice QUANTITY
\* because both had bought on the flat account
C16_Witness ==
    /\ position # PyNone
    /\ position.qty = 2 * QUANTITY
    /\ pending = <<[side |-> "sell", qty |-> 2 * QUANTITY],
                   [side |-> "sell", qty |-> 2 * QUANTITY]>>

\* C17: for both engines, a cycle that finds the API key or the API secret
\* absent ends before any external call: it has made no market-clock query,
\* loaded no config, fetched no market data, made no position query and
\* placed no order.
C17_CredentialsGate ==
    (last.creds # Unread /\ (~last.creds.api_key \/ ~last.creds.secret_key))
        => last = [Blank EXCEPT !.creds = last.creds, !.ret = "nocreds"]

C17_Witness ==
    /\ last.creds = Credentials(TRUE, FALSE)
    /\ last.ret = "nocreds"
    /\ last.market = "unread"
    /\ position # PyNone

\* C18: for both engines, a cycle places no order when the config file is
\* missing, when the symbol's previous close cannot be obtained, or, with no
\* position, when the symbol's daily bar or latest trade is missing; the
\* entry gate then answers should_enter = false with no reference price,
\* and whenever it answers should_enter = true the reference price is the
\* current price.
C18_AbortWithoutOrder ==
    /\ last.config = PyNone => (last.order = PyNone /\ last.pos = Unread)
    /\ last.prev_close = PyNone => (last.order = PyNone /\ last.pos = Unread)
    /\ (SawFlat /\ (last.today_open = PyNone \/ last.current_price = PyNone))
           => /\ ~last.should_enter
              /\ last.ref_price = PyNone
              /\ last.order = PyNone
    /\ last.should_enter =>
           /\ Truthy(last.current_price)
           /\ last.ref_price = last.current_price

C18_Witness ==
    /\ SawFlat
    /\ last.enabled = PyTrue
    /\ last.today_open \in TodayOpens
    /\ last.current_price = PyNone
    /\ last.ref_price = PyNone

\* the sum of the closes from index i to the end of the list
RECURSIVE SumFrom(_, _)
SumFrom(s, i) == IF i > Len(s) THEN 0 ELSE s[i] + SumFrom(s, i + 1)

\* C19: the monitor takes sma20 as the mean of the 20 most recent closes and
\* signals exit exactly when current_price < sma20; with fewer than 20
\* closes the result is indeterminate and nothing is done; and it never
\* places a BUY.
C19_MovingAverageExit ==
    sma # Unread =>
        LET n      == Len(sma.daily_closes)
            window == SumFrom(sma.daily_closes, n - 19)
        IN  /\ n < 20 => (sma.signal = "indeterminate" /\ sma.order = PyNone)
            /\ n >= 20 =>
                   /\ sma.sma20.n * 20 = window * sma.sma20.d
                   /\ sma.signal \in {"exit", "hold"}
                   /\ sma.signal = "exit" <=> sma.current_price * 20 < window
            /\ sma.order # PyNone =>
                   (sma.order.side = "sell" /\ sma.signal = "exit")

\* 21 closes whose oldest one, 40.00, lies outside the window: the average
\* is 50.00 and a price of 49.99 signals exit
C19_Witness ==
    /\ sma # Unread
    /\ Len(sma.daily_closes) = 21
    /\ sma.daily_closes[1] = 4000
    /\ sma.sma20 = R(5000)
    /\ sma.current_price = 4999
    /\ sma.signal = "exit"

\* the stop of the cycle's position from the prices, the benchmark values
\* and the percent the cycle used; none for SPXS without benchmark data
C20_Stop ==
    IF engine = "LONG"
    THEN RMax(IF BenchmarkAvailable
              THEN RMul(last.pos.entry,
                        RAdd(R(1), RDiv(BenchmarkStopPct, R(100))))
              ELSE RMul(last.pos.entry,
                        RSub(R(1), RDiv(last.trailing_percent, R(100)))),
              PureTrailingStop)
    ELSE IF BenchmarkAvailable THEN C7_DynamicStop ELSE PyNone

C20_StopHit ==
    IF engine = "LONG" THEN RLe(last.current_price, C20_Stop)
    ELSE C20_Stop # PyNone /\ RLe(C20_Stop, last.current_price)

\* the host clock reads 20:58 or 20:59
C20_CutoffMinute ==
    /\ WallMinuteOfDay(last.now) >= 20 * 60 + 58
    /\ WallMinuteOfDay(last.now) < 21 * 60

\* C20: for both engines, in a cycle that observes an open position the
\* exit decision (stop-triggered SELL, cutoff SELL or hold) follows from
\* the prices, the stop inputs and the time alone: it is the same with
\* trading_enabled true, false or absent; a flag that is not true only
\* keeps a flat cycle from entering.
C20_ExitIgnoresFlag ==
    /\ SawPosition =>
           /\ last.enabled \in EnabledValues
           /\ last.ret = "stop" <=> C20_StopHit
           /\ last.ret = "cutoff" <=> (~C20_StopHit /\ C20_CutoffMinute)
           /\ last.ret = "hold" <=> (~C20_StopHit /\ ~C20_CutoffMinute)
           /\ PlacedSell <=> last.ret \in {"stop", "cutoff"}
           /\ PlacedSell => last.order.qty = last.pos.qty
           /\ ~PlacedBuy
    /\ (SawFlat /\ last.enabled # PyTrue) => last.order = PyNone

C20_Witness ==
    /\ SawPosition
    /\ last.enabled = PyFalse
    /\ last.ret = "stop"
    /\ PlacedSell
    /\ last.order.ok

\* the step is the first stop computation of a process that follows one
\* which exited holding a tracker entry
FirstCycleAfterRestart ==
    LongStopCycle /\ hist.lost_high # PyNone

C21_Step ==
    FirstCycleAfterRestart =>
        /\ last'.hp_before = PyNone
        /\ last'.hp_seen = last'.current_price
        /\ last'.trailing_stop =
               RMul(last'.current_price,
                    RSub(R(1), RDiv(last'.trailing_percent, R(100))))
        /\ RLt(last'.trailing_stop, last'.current_price)
        /\ last'.ret = "stop" =>
               RLe(last'.current_price, last'.initial_stop)

\* C21: highest_price lives in process memory only: in the first cycle of a
\* new process that observes an open UPRO position the high-water mark
\* starts at that cycle's current price, whatever higher prices earlier
\* processes observed; the cycle's trailing stop is current_price *
\* (1 - trailing_percent/100), strictly below the current price, and the
\* cycle sells on the stop only if the initial stop is reached.
C21_RestartResetsTrailing == [][C21_Step]_vars

\* the exited process had seen 103; the new one starts from 97 and holds,
\* although the trailing stop from 103 lies at or above 97
C21_Witness ==
    /\ hist.lost_above = R(103)
    /\ last.current_price = R(97)
    /\ last.hp_seen = R(97)
    /\ last.ret = "hold"
    /\ RLe(last.current_price,
           RMul(hist.lost_above,
                RSub(R(1), RDiv(last.trailing_percent, R(100)))))

\* the cycle observed a position whose stop was reached while the host clock
\* read 20:58 or 20:59
C22_StopInsideCutoff ==
    SawPosition /\ C20_StopHit /\ C20_CutoffMinute

\* C22: for both engines one invocation of main places at most one order;
\* when the stop is triggered inside the end-of-day cutoff window exactly
\* one SELL is placed; a BUY is placed only in a cycle that observed no
\* position and a SELL only in a cycle that observed a position.
C22_OneOrderPerCycle ==
    /\ last.orders <= 1
    /\ last.orders = 1 <=> last.order # PyNone
    /\ C22_StopInsideCutoff => last.orders = 1 /\ PlacedSell
    /\ PlacedBuy => SawFlat
    /\ PlacedSell => SawPosition

C22_Witness ==
    /\ C22_StopInsideCutoff
    /\ last.ret = "stop"
    /\ last.orders = 1
    /\ PlacedSell
    /\ last.order.ok
    /\ pending = <<[side |-> "sell", qty |-> last.pos.qty]>>

====
